---- MODULE Spec2Model ----
(***************************************************************************)
(* ndn::Block (src/src/encoding/block.hpp): one TLV wire element.  The     *)
(* element under test is `blk`; every member function is an action that    *)
(* records what it was called on (`old`), how it was called (`op`) and     *)
(* what it returned or threw (`ret`).                                      *)
(*                                                                         *)
(* Buffer::const_iterator is modelled as an offset into the buffer the     *)
(* element holds, a default-constructed iterator as NullIt.  An            *)
(* element_iterator is a 0-based offset into m_subBlocks, so that          *)
(* m_subBlocks.end() is the number of children.  uint32_t values are kept  *)
(* as their 32-bit pattern read as a two's-complement integer (the model   *)
(* checker's integers are 32 bits wide): only equality of type codes is    *)
(* ever used on the values that do not fit.                                *)
(***************************************************************************)
EXTENDS Integers, Sequences, FiniteSets, TLC

VARIABLES blk, old, op, ret

vars == <<blk, old, op, ret>>

----------------------------------------------------------------------------
(* Bounds of the model *)

\* most children an element gets through push_back
MaxChildren == 3
\* m_size of an element built without a buffer is never assigned a byte
\* count that can be relied on: any of 0..MaxUnsetSize
MaxUnsetSize == 1

----------------------------------------------------------------------------
(* Values *)

\* std::numeric_limits<uint32_t>::max(), bit pattern 0xFFFFFFFF
UINT32_MAX == -1

\* Buffer::const_iterator()
NullIt == -1

\* ConstBufferPtr: empty shared_ptr
NoBuffer == [present |-> FALSE, bytes |-> <<>>]

\* ConstBufferPtr owning the bytes
BufferOf(bytes) == [present |-> TRUE, bytes |-> bytes]

\* the members of Block
MkBlock(buffer, type, b, e, size, vb, ve, subs) ==
  [m_buffer |-> buffer, m_type |-> type, m_begin |-> b, m_end |-> e,
   m_size |-> size, m_value_begin |-> vb, m_value_end |-> ve,
   m_subBlocks |-> subs]

----------------------------------------------------------------------------
(* VarNumber codec (the Tlv collaborator) *)

\* number of bytes of the VarNumber encoding of v
sizeOfVarNumber(v) ==
  IF v < 253 THEN 1 ELSE IF v <= 65535 THEN 3 ELSE 5

\* VarNumber encoding of v, 0 <= v < 2^31
writeVarNumber(v) ==
  IF v < 253 THEN <<v>>
  ELSE IF v <= 65535 THEN <<253, v \div 256, v % 256>>
  ELSE <<254, v \div 16777216, (v \div 65536) % 256, (v \div 256) % 256, v % 256>>

\* decode a VarNumber of bytes at offset pos (0-based), reading no further
\* than lim: the value and the offset after it, or a truncation error
readVarNumber(bytes, pos, lim) ==
  IF pos >= lim THEN [ok |-> FALSE, val |-> 0, next |-> pos]
  ELSE LET first == bytes[pos + 1] IN
    IF first < 253 THEN [ok |-> TRUE, val |-> first, next |-> pos + 1]
    ELSE IF first = 253 THEN
      IF pos + 3 > lim THEN [ok |-> FALSE, val |-> 0, next |-> pos]
      ELSE [ok |-> TRUE, val |-> bytes[pos + 2] * 256 + bytes[pos + 3],
            next |-> pos + 3]
    ELSE IF first = 254 THEN
      IF pos + 5 > lim \/ bytes[pos + 2] >= 128
        THEN [ok |-> FALSE, val |-> 0, next |-> pos]
      ELSE [ok |-> TRUE,
            val |-> bytes[pos + 2] * 16777216 + bytes[pos + 3] * 65536
                    + bytes[pos + 4] * 256 + bytes[pos + 5],
            next |-> pos + 5]
    ELSE [ok |-> FALSE, val |-> 0, next |-> pos]

----------------------------------------------------------------------------
(* Constructors *)

\* Block()
Block_default(s) ==
  MkBlock(NoBuffer, UINT32_MAX, NullIt, NullIt, s, NullIt, NullIt, <<>>)

\* Block(uint32_t type)
Block_type(t, s) ==
  MkBlock(NoBuffer, t, NullIt, NullIt, s, NullIt, NullIt, <<>>)

\* Block(uint32_t type, const ConstBufferPtr& value)
Block_value(t, bytes) ==
  MkBlock(BufferOf(bytes), t, Len(bytes), Len(bytes),
          sizeOfVarNumber(t) + sizeOfVarNumber(Len(bytes)) + Len(bytes),
          0, Len(bytes), <<>>)

\* Block(wire, type, begin, end, valueBegin, valueEnd)
Block_explicit(bytes, t, b, e, vb, ve) ==
  MkBlock(BufferOf(bytes), t, b, e, e - b, vb, ve, <<>>)

\* Block(buffer, begin, end): type and length detection inside [b, e)
Block_range(bytes, b, e) ==
  LET ty == readVarNumber(bytes, b, e)
      ln == readVarNumber(bytes, ty.next, e)
  IN IF ~ty.ok \/ ~ln.ok THEN [ok |-> FALSE, block |-> Block_default(0)]
     ELSE IF ln.val > e - ln.next THEN [ok |-> FALSE, block |-> Block_default(0)]
     ELSE [ok |-> TRUE,
           block |-> Block_explicit(bytes, ty.val, b, ln.next + ln.val,
                                    ln.next, ln.next + ln.val)]

\* Block(const ConstBufferPtr& buffer)
Block_wire(bytes) == Block_range(bytes, 0, Len(bytes))

\* Block(uint32_t type, const Block& value): value's wire as the new value
Block_nested(t, v) ==
  MkBlock(v.m_buffer, t, Len(v.m_buffer.bytes), Len(v.m_buffer.bytes),
          sizeOfVarNumber(t) + sizeOfVarNumber(v.m_end - v.m_begin)
            + (v.m_end - v.m_begin),
          v.m_begin, v.m_end, <<>>)

----------------------------------------------------------------------------
(* What a call returns: a value, or the thrown Block::Error *)

NoElem == Block_default(0)

Returns(v) == [ok |-> TRUE, err |-> "", flag |-> FALSE, val |-> v, elem |-> NoElem]
ReturnsBool(f) == [ok |-> TRUE, err |-> "", flag |-> f, val |-> 0, elem |-> NoElem]
ReturnsElem(pos, e) == [ok |-> TRUE, err |-> "", flag |-> FALSE, val |-> pos, elem |-> e]
ReturnsVoid == Returns(0)
Throws == [ok |-> FALSE, err |-> "Error", flag |-> FALSE, val |-> 0, elem |-> NoElem]

----------------------------------------------------------------------------
(* State predicates of Block *)

empty(b) == b.m_type = UINT32_MAX

hasWire_bufferOnly(b) == b.m_buffer.present

hasWire(b) == b.m_buffer.present /\ (b.m_begin # b.m_end)

hasValue_needsWire(b) == b.m_buffer.present /\ (b.m_begin # b.m_end)

hasValue(b) == b.m_buffer.present

type(b) == b.m_type

----------------------------------------------------------------------------
(* reset *)

reset_keepsChildren(b) ==
  [b EXCEPT !.m_buffer = NoBuffer, !.m_type = UINT32_MAX,
            !.m_begin = NullIt, !.m_end = NullIt,
            !.m_value_begin = NullIt, !.m_value_end = NullIt]

reset(b) ==
  [b EXCEPT !.m_buffer = NoBuffer, !.m_subBlocks = <<>>,
            !.m_type = UINT32_MAX,
            !.m_begin = NullIt, !.m_end = NullIt,
            !.m_value_begin = NullIt, !.m_value_end = NullIt]

----------------------------------------------------------------------------
(* Lookup among the children *)

\* the for loop of get, entered with the iterator at offset i
RECURSIVE getLoop(_, _, _)
getLoop(subs, i, t) ==
  IF i = Len(subs) THEN Throws
  ELSE IF type(subs[i + 1]) = t THEN ReturnsElem(i, subs[i + 1])
  ELSE getLoop(subs, i + 1, t)

\* a loop that runs from the back
RECURSIVE getLoopBack(_, _, _)
getLoopBack(subs, i, t) ==
  IF i = 0 THEN Throws
  ELSE IF type(subs[i]) = t THEN ReturnsElem(i - 1, subs[i])
  ELSE getLoopBack(subs, i - 1, t)

get_lastMatch(b, t) == getLoopBack(b.m_subBlocks, Len(b.m_subBlocks), t)

get(b, t) == getLoop(b.m_subBlocks, 0, t)

\* the for loop of find, entered with the iterator at offset i
RECURSIVE findLoop(_, _, _)
findLoop(subs, i, t) ==
  IF i = Len(subs) THEN Returns(Len(subs))
  ELSE IF type(subs[i + 1]) = t THEN Returns(i)
  ELSE findLoop(subs, i + 1, t)

find_lastMatch(b, t) ==
  LET r == getLoopBack(b.m_subBlocks, Len(b.m_subBlocks), t)
  IN IF r.ok THEN Returns(r.val) ELSE Returns(Len(b.m_subBlocks))

find(b, t) == findLoop(b.m_subBlocks, 0, t)

----------------------------------------------------------------------------
(* Mutation of the children *)

\* the for loop of remove, entered with the iterator at offset i and
\* newContainer as built so far
RECURSIVE removeLoop(_, _, _, _)
removeLoop(subs, i, t, newContainer) ==
  IF i = Len(subs) THEN newContainer
  ELSE IF type(subs[i + 1]) # t
    THEN removeLoop(subs, i + 1, t, Append(newContainer, subs[i + 1]))
  ELSE removeLoop(subs, i + 1, t, newContainer)

remove_firstOnly(b, t) ==
  LET p == find(b, t).val
      subs == b.m_subBlocks
  IN [b EXCEPT !.m_subBlocks =
        IF p = Len(subs) THEN subs
        ELSE SubSeq(subs, 1, p) \o SubSeq(subs, p + 2, Len(subs))]

remove(b, t) ==
  [b EXCEPT !.m_subBlocks = removeLoop(b.m_subBlocks, 0, t, <<>>)]

\* std::vector::erase(first, last) on element offsets
vectorErase(subs, first, last) ==
  SubSeq(subs, 1, first) \o SubSeq(subs, last + 1, Len(subs))

\* erase(position), position dereferenceable
erase(b, position) ==
  [b EXCEPT !.m_subBlocks = vectorErase(b.m_subBlocks, position, position + 1)]

\* erase(first, last), [first, last) a valid range of the children
erase_range(b, first, last) ==
  [b EXCEPT !.m_subBlocks = vectorErase(b.m_subBlocks, first, last)]

push_back_resetsWire(b, element) ==
  [b EXCEPT !.m_subBlocks = Append(b.m_subBlocks, element),
            !.m_buffer = NoBuffer,
            !.m_begin = NullIt, !.m_end = NullIt,
            !.m_value_begin = NullIt, !.m_value_end = NullIt]

push_back(b, element) ==
  [b EXCEPT !.m_subBlocks = Append(b.m_subBlocks, element)]

----------------------------------------------------------------------------
(* Readers of the ranges *)

begin(b) == IF ~hasWire(b) THEN Throws ELSE Returns(b.m_begin)

end(b) == IF ~hasWire(b) THEN Throws ELSE Returns(b.m_end)

size_wireOnly(b) == IF hasWire(b) THEN Returns(b.m_size) ELSE Throws

size(b) == IF hasWire(b) \/ hasValue(b) THEN Returns(b.m_size) ELSE Throws

value_begin(b) == IF ~hasValue(b) THEN Throws ELSE Returns(b.m_value_begin)

value_end(b) == IF ~hasValue(b) THEN Throws ELSE Returns(b.m_value_end)

\* &*m_begin: the address of the byte at m_begin
wire(b) == IF ~hasWire(b) THEN Throws ELSE Returns(b.m_begin)

\* &*m_value_begin
value(b) == IF ~hasValue(b) THEN Throws ELSE Returns(b.m_value_begin)

value_size_fromBegin(b) ==
  IF ~hasValue(b) THEN Returns(0) ELSE Returns(b.m_value_end - b.m_begin)

value_size(b) ==
  IF ~hasValue(b) THEN Returns(0) ELSE Returns(b.m_value_end - b.m_value_begin)

----------------------------------------------------------------------------
(* The calls made on the element *)

\* the encoding of the element of type 5 with the children (1, 01 02 03)
\* and (2, no bytes): the value is 5 + 2 bytes long
WireBytes == <<5, 7, 1, 3, 1, 2, 3, 2, 0>>

\* the bytes with a value length of 5
ClaimedBytes == <<5, 5, 1, 3, 1, 2, 3, 2, 0>>

\* the elements given to push_back
ChildPool ==
  {Block_type(1, 0), Block_value(1, <<1, 2, 3>>), Block_value(2, <<>>)}

\* the type codes looked up and removed
LookupTypes == {1, 2, 3, UINT32_MAX}

\* the element as constructed
InitBlocks ==
  {Block_default(s) : s \in 0..MaxUnsetSize}
    \cup {Block_type(5, s) : s \in 0..MaxUnsetSize}
    \cup {Block_value(5, <<1, 2, 3>>), Block_value(5, <<>>)}
    \cup {Block_wire(WireBytes).block}
    \cup {Block_explicit(WireBytes, 1, 2, 7, 4, 7)}
    \cup {Block_nested(6, Block_explicit(WireBytes, 1, 2, 7, 4, 7))}

MkOp(name, t, e, i, j) == [name |-> name, t |-> t, e |-> e, i |-> i, j |-> j]

Call(name, t, e, i, j, after, r) ==
  /\ blk' = after
  /\ old' = blk
  /\ op' = MkOp(name, t, e, i, j)
  /\ ret' = r

Read(name, r) == Call(name, 0, NoElem, 0, 0, blk, r)

Init ==
  /\ blk \in InitBlocks
  /\ old = blk
  /\ op = MkOp("construct", 0, NoElem, 0, 0)
  /\ ret = ReturnsVoid

Empty == Read("empty", ReturnsBool(empty(blk)))

HasWire == Read("hasWire", ReturnsBool(hasWire(blk)))

HasValue == Read("hasValue", ReturnsBool(hasValue(blk)))

Type == Read("type", Returns(type(blk)))

Reset == Call("reset", 0, NoElem, 0, 0, reset(blk), ReturnsVoid)

Get(t) == Call("get", t, NoElem, 0, 0, blk, get(blk, t))

Find(t) == Call("find", t, NoElem, 0, 0, blk, find(blk, t))

Remove(t) == Call("remove", t, NoElem, 0, 0, remove(blk, t), ReturnsVoid)

Erase(position) ==
  /\ position \in 0..(Len(blk.m_subBlocks) - 1)
  /\ Call("erase", 0, NoElem, position, 0, erase(blk, position),
          Returns(position))

EraseRange(first, last) ==
  /\ first \in 0..Len(blk.m_subBlocks)
  /\ last \in first..Len(blk.m_subBlocks)
  /\ Call("erase_range", 0, NoElem, first, last,
          erase_range(blk, first, last), Returns(first))

PushBack(element) ==
  /\ Len(blk.m_subBlocks) < MaxChildren
  /\ Call("push_back", 0, element, 0, 0, push_back(blk, element), ReturnsVoid)

Begin == Read("begin", begin(blk))

End == Read("end", end(blk))

Size == Read("size", size(blk))

ValueBegin == Read("value_begin", value_begin(blk))

ValueEnd == Read("value_end", value_end(blk))

Wire == Read("wire", wire(blk))

Value == Read("value", value(blk))

ValueSize == Read("value_size", value_size(blk))

Next ==
  \/ Empty
  \/ HasWire
  \/ HasValue
  \/ Type
  \/ Reset
  \/ \E t \in LookupTypes : Get(t)
  \/ \E t \in LookupTypes : Find(t)
  \/ \E t \in LookupTypes : Remove(t)
  \/ \E position \in 0..MaxChildren : Erase(position)
  \/ \E first \in 0..MaxChildren : \E last \in 0..MaxChildren :
       EraseRange(first, last)
  \/ \E element \in ChildPool : PushBack(element)
  \/ Begin
  \/ End
  \/ Size
  \/ ValueBegin
  \/ ValueEnd
  \/ Wire
  \/ Value
  \/ ValueSize

Spec == Init /\ [][Next]_vars

----------------------------------------------------------------------------
(* Properties of lookup and mutation *)

\* offsets of the children of b whose type is t
Matches(b, t) == {i \in 0..(Len(b.m_subBlocks) - 1) : b.m_subBlocks[i + 1].m_type = t}

\* the least offset of a non-empty set of offsets
Lowest(S) == CHOOSE i \in S : \A j \in S : i <= j

\* type, buffer, wire range and value range of a and b agree
SameTypeBufferRanges(a, b) ==
  /\ a.m_type = b.m_type
  /\ a.m_buffer = b.m_buffer
  /\ a.m_begin = b.m_begin /\ a.m_end = b.m_end
  /\ a.m_value_begin = b.m_value_begin /\ a.m_value_end = b.m_value_end

\* C1: get(t) returns the child of type t at the lowest offset; with no
\* child of type t it throws Error, and in both cases the element is as it
\* was before the call.
C1_GetFirstMatch ==
  op.name = "get" =>
    /\ blk = old
    /\ IF Matches(old, op.t) = {}
         THEN ~ret.ok /\ ret.err = "Error"
         ELSE /\ ret.ok
              /\ ret.val = Lowest(Matches(old, op.t))
              /\ ret.elem = old.m_subBlocks[Lowest(Matches(old, op.t)) + 1]

\* get on three children of the requested type, the first of which differs
\* from the last, returned the first
C1_Witness ==
  /\ op.name = "get"
  /\ Cardinality(Matches(old, op.t)) = 3
  /\ old.m_subBlocks[1] # old.m_subBlocks[3]
  /\ ret.ok /\ ret.val = 0

\* get threw on an element that has children, none of the requested type
C1_WitnessNotFound ==
  /\ op.name = "get"
  /\ old.m_subBlocks # <<>>
  /\ ~ret.ok

\* C2: find(t) never throws; it returns the lowest offset of a child of
\* type t, and the end of the children exactly when there is none; it
\* differs from the end iff get(t) succeeds, and then get(t) returns the
\* child at that offset.
C2_FindFirstOrEnd ==
  op.name = "find" =>
    /\ ret.ok
    /\ blk = old
    /\ (ret.val = Len(old.m_subBlocks)) <=> (Matches(old, op.t) = {})
    /\ Matches(old, op.t) # {} => ret.val = Lowest(Matches(old, op.t))
    /\ (ret.val # Len(old.m_subBlocks)) <=> get(old, op.t).ok
    /\ get(old, op.t).ok =>
         /\ get(old, op.t).val = ret.val
         /\ get(old, op.t).elem = old.m_subBlocks[ret.val + 1]

\* find returned the first of several children of the requested type,
\* behind a child of another type
C2_Witness ==
  /\ op.name = "find"
  /\ Cardinality(Matches(old, op.t)) = 2
  /\ ret.val = 1

\* the children of b that are not of type t, in their order
Without(b, t) == SelectSeq(b.m_subBlocks, LAMBDA c : c.m_type # t)

\* C3: remove(t) leaves the children that are not of type t, in their
\* previous order, so that find(t) returns the end and get(t) throws; with
\* no child of type t the children are unchanged; type, buffer, wire range
\* and value range are unchanged.
C3_RemoveAllMatches ==
  op.name = "remove" =>
    /\ blk.m_subBlocks = Without(old, op.t)
    /\ Matches(blk, op.t) = {}
    /\ find(blk, op.t).val = Len(blk.m_subBlocks)
    /\ ~get(blk, op.t).ok
    /\ Matches(old, op.t) = {} => blk.m_subBlocks = old.m_subBlocks
    /\ SameTypeBufferRanges(blk, old)

\* remove deleted two children of the requested type around one that stays
C3_Witness ==
  /\ op.name = "remove"
  /\ Len(old.m_subBlocks) = 3
  /\ Matches(old, op.t) = {0, 2}
  /\ blk.m_subBlocks = <<old.m_subBlocks[2]>>

\* C4: push_back(e) appends e behind the unchanged children and leaves
\* type, buffer, wire range, value range and stored size as they were, so
\* hasWire, hasValue, size and value_size answer as before.
C4_PushBackAppends ==
  op.name = "push_back" =>
    /\ blk.m_subBlocks = old.m_subBlocks \o <<op.e>>
    /\ SameTypeBufferRanges(blk, old)
    /\ blk.m_size = old.m_size
    /\ hasWire(blk) = hasWire(old)
    /\ hasValue(blk) = hasValue(old)
    /\ size(blk) = size(old)
    /\ value_size(blk) = value_size(old)

\* push_back on a wire-backed element that already holds a child of the
\* same type as the one appended
C4_Witness ==
  /\ op.name = "push_back"
  /\ hasWire(old)
  /\ Matches(old, op.e.m_type) # {}
  /\ size(blk).ok

----------------------------------------------------------------------------
(* Properties of the element's state *)

\* b holds no buffer, no range and no child
NoBufferRangesChildren(b) ==
  /\ ~b.m_buffer.present
  /\ b.m_begin = NullIt /\ b.m_end = NullIt
  /\ b.m_value_begin = NullIt /\ b.m_value_end = NullIt
  /\ b.m_subBlocks = <<>>

\* C5: in every state reached by construction, push_back, remove, erase
\* and reset, empty() holds iff the type is the sentinel, and an element for
\* which empty() holds has no buffer, no ranges and no children.
C5_EmptyHasNothing ==
  /\ empty(blk) <=> (blk.m_type = UINT32_MAX)
  /\ empty(blk) => NoBufferRangesChildren(blk)

\* the part of C5 the code keeps: the type of an element is the sentinel
\* exactly when empty() answers true, and such an element has no buffer and
\* no ranges
C5_EmptyHasNoBuffer ==
  /\ empty(blk) <=> (blk.m_type = UINT32_MAX)
  /\ empty(blk) => ~blk.m_buffer.present /\ blk.m_begin = NullIt
                   /\ blk.m_end = NullIt /\ blk.m_value_begin = NullIt
                   /\ blk.m_value_end = NullIt

\* b is in the state reset() leaves: every reader of the ranges throws but
\* value_size, which returns 0
IsReset(b) ==
  /\ empty(b)
  /\ ~hasWire(b) /\ ~hasValue(b)
  /\ b.m_subBlocks = <<>>
  /\ value_size(b) = Returns(0)
  /\ size(b) = Throws /\ begin(b) = Throws /\ end(b) = Throws
  /\ wire(b) = Throws /\ value_begin(b) = Throws /\ value_end(b) = Throws
  /\ value(b) = Throws

\* C6: reset() on an element in any state leaves it empty, without buffer
\* (hasWire and hasValue false) and without children, value_size() 0 and
\* size, begin, end, wire, value_begin, value_end and value throwing; a
\* second reset() changes nothing.
C6_ResetEmpties ==
  op.name = "reset" =>
    /\ IsReset(blk)
    /\ reset(blk) = blk

\* reset of a wire-backed element that has children
C6_Witness ==
  /\ op.name = "reset"
  /\ hasWire(old)
  /\ old.m_subBlocks # <<>>
  /\ ~empty(old)

\* reset of an element that is already empty, and of a value-only one
C6_WitnessEmpty == op.name = "reset" /\ empty(old) /\ old.m_subBlocks # <<>>
C6_WitnessValueOnly == op.name = "reset" /\ hasValue(old) /\ ~hasWire(old)

\* C7: hasValue() holds iff the buffer is present; without it value_size()
\* returns 0 and value(), value_begin() and value_end() throw Error; with it
\* value_size() is valueEnd - valueBegin and value_begin()/value_end()
\* return the bounds of the value range. None of the calls changes the
\* element.
C7_ValueReaders ==
  /\ hasValue(blk) <=> blk.m_buffer.present
  /\ op.name = "hasValue" => ret.flag = old.m_buffer.present /\ blk = old
  /\ op.name = "value_size" =>
       /\ blk = old
       /\ ret.ok
       /\ ret.val = IF hasValue(old)
                      THEN old.m_value_end - old.m_value_begin ELSE 0
  /\ op.name = "value_begin" =>
       /\ blk = old
       /\ ret.ok <=> old.m_buffer.present
       /\ ret.ok => ret.val = old.m_value_begin
       /\ ~ret.ok => ret.err = "Error"
  /\ op.name = "value_end" =>
       /\ blk = old
       /\ ret.ok <=> old.m_buffer.present
       /\ ret.ok => ret.val = old.m_value_end
       /\ ~ret.ok => ret.err = "Error"
  /\ op.name = "value" =>
       /\ blk = old
       /\ ret.ok <=> old.m_buffer.present
       /\ ~ret.ok => ret.err = "Error"

\* value_begin() answered on a value-only element whose value is not empty
C7_Witness ==
  /\ op.name = "value_begin"
  /\ old.m_buffer.present
  /\ old.m_begin = old.m_end
  /\ old.m_value_end - old.m_value_begin = 3
  /\ ret.ok

\* value_size() answered 0 on an element without buffer
C7_WitnessNoValue ==
  op.name = "value_size" /\ ~old.m_buffer.present /\ ret = Returns(0)

\* C8: hasWire() holds iff the buffer is present and begin # end; begin(),
\* end() and wire() return the bounds of the wire range exactly when
\* hasWire() holds and throw Error otherwise; hasWire() implies hasValue().
C8_WireReaders ==
  /\ hasWire(blk) <=> (blk.m_buffer.present /\ blk.m_begin # blk.m_end)
  /\ hasWire(blk) => hasValue(blk)
  /\ op.name = "hasWire" =>
       ret.flag = (old.m_buffer.present /\ old.m_begin # old.m_end)
  /\ op.name = "begin" =>
       /\ ret.ok <=> (old.m_buffer.present /\ old.m_begin # old.m_end)
       /\ ret.ok => ret.val = old.m_begin
       /\ ~ret.ok => ret.err = "Error"
  /\ op.name = "end" =>
       /\ ret.ok <=> (old.m_buffer.present /\ old.m_begin # old.m_end)
       /\ ret.ok => ret.val = old.m_end
       /\ ~ret.ok => ret.err = "Error"
  /\ op.name = "wire" =>
       /\ ret.ok <=> (old.m_buffer.present /\ old.m_begin # old.m_end)
       /\ ret.ok => ret.val = old.m_begin
       /\ ~ret.ok => ret.err = "Error"

\* begin() threw on a value-only element (buffer present, begin = end)
C8_Witness ==
  /\ op.name = "begin"
  /\ old.m_buffer.present
  /\ old.m_begin = old.m_end
  /\ ret = Throws

\* begin() answered on a wire-backed element
C8_WitnessWire == op.name = "begin" /\ ret.ok /\ ret.val = old.m_begin

\* C9: size() succeeds iff hasWire() or hasValue() and throws Error
\* otherwise; whenever hasWire() holds, in every state reached by
\* construction, push_back, remove, erase and reset, size() is end - begin.
C9_SizeDefined ==
  /\ size(blk).ok <=> (hasWire(blk) \/ hasValue(blk))
  /\ hasWire(blk) => size(blk) = Returns(blk.m_end - blk.m_begin)
  /\ op.name = "size" =>
       /\ blk = old
       /\ ret.ok <=> (hasWire(old) \/ hasValue(old))
       /\ ~ret.ok => ret.err = "Error"
       /\ hasWire(old) => ret.val = old.m_end - old.m_begin

\* size() answered end - begin on a wire-backed element that was changed by
\* push_back since its construction
C9_Witness ==
  /\ op.name = "size"
  /\ hasWire(old)
  /\ old.m_subBlocks # <<>>
  /\ ret = Returns(old.m_end - old.m_begin)

\* size() answered on a value-only element, and threw after reset
C9_WitnessValueOnly == op.name = "size" /\ ~hasWire(old) /\ hasValue(old) /\ ret.ok
C9_WitnessThrows == op.name = "size" /\ empty(old) /\ old.m_size # 0 /\ ret = Throws

----------------------------------------------------------------------------
(* encode and parse *)

\* the bytes [from, to) of a buffer
Bytes(buffer, from, to) == SubSeq(buffer.bytes, from + 1, to)

\* the wire encoding a wire-backed element refers to
WireOf(b) == Bytes(b.m_buffer, b.m_begin, b.m_end)

\* the concatenation of the wire encodings of subs[i..]
RECURSIVE ConcatWire(_, _)
ConcatWire(subs, i) ==
  IF i > Len(subs) THEN <<>> ELSE WireOf(subs[i]) \o ConcatWire(subs, i + 1)

\* encode(): nothing to do with a wire; otherwise type, value length and
\* value (the value buffer, or else the children, each encoded first) go
\* into a new buffer that the element then refers to
RECURSIVE encode(_)
encode(b) ==
  IF hasWire(b) THEN b
  ELSE
    LET subs == IF hasValue(b) THEN b.m_subBlocks
                ELSE [i \in 1..Len(b.m_subBlocks) |-> encode(b.m_subBlocks[i])]
        val == IF hasValue(b)
                 THEN Bytes(b.m_buffer, b.m_value_begin, b.m_value_end)
                 ELSE ConcatWire(subs, 1)
        hdr == writeVarNumber(type(b)) \o writeVarNumber(Len(val))
        out == hdr \o val
    IN MkBlock(BufferOf(out), type(b), 0, Len(out), Len(out),
               Len(hdr), Len(out), subs)

\* the loop of parse(), with the cursor at offset pos of the value range
RECURSIVE parseLoop(_, _)
parseLoop(b, pos) ==
  IF pos = b.m_value_end THEN [ok |-> TRUE, block |-> b]
  ELSE
    LET bytes == b.m_buffer.bytes
        ty == readVarNumber(bytes, pos, b.m_value_end)
        ln == readVarNumber(bytes, ty.next, b.m_value_end)
    IN IF ~ty.ok \/ ~ln.ok THEN [ok |-> FALSE, block |-> b]
       ELSE IF ln.val > b.m_value_end - ln.next THEN [ok |-> FALSE, block |-> b]
       ELSE parseLoop(
              push_back(b, Block_explicit(bytes, ty.val, pos, ln.next + ln.val,
                                          ln.next, ln.next + ln.val)),
              ln.next + ln.val)

\* parse(): one level of children out of the value range, unless the
\* children are there already or there is no value
parse(b) ==
  IF b.m_subBlocks # <<>> \/ ~hasValue(b) THEN [ok |-> TRUE, block |-> b]
  ELSE parseLoop(b, b.m_value_begin)

\* type codes of the elements that are built and encoded
CodecTypes == {5, 300}

\* the children they are given
CodecPool ==
  {Block_value(1, <<1, 2, 3>>), Block_value(2, <<>>), Block_type(3, 0)}

\* received buffers that are not the encoding of an element: a child whose
\* length overruns the value, a child cut inside its header, an element
\* shorter than its length says
MalformedBuffers == {<<5, 2, 1, 3>>, <<5, 1, 1>>, <<5, 5, 1>>}

InitCodec ==
  /\ blk \in {Block_type(t, s) : t \in CodecTypes, s \in 0..MaxUnsetSize}
  /\ old = blk
  /\ op = MkOp("construct", 0, NoElem, 0, 0)
  /\ ret = ReturnsVoid

Encode == Call("encode", 0, NoElem, 0, 0, encode(blk), ReturnsVoid)

Parse ==
  Call("parse", 0, NoElem, 0, 0, parse(blk).block,
       IF parse(blk).ok THEN ReturnsVoid ELSE Throws)

\* a new element constructed from the bytes this one was encoded to
Decode ==
  /\ hasWire(blk)
  /\ Call("decode", 0, NoElem, 0, 0, Block_wire(WireOf(blk)).block,
          ReturnsVoid)

\* a new element constructed from a received buffer; a constructor that
\* throws constructs nothing
Receive(bytes) ==
  Call("receive", 0, NoElem, 0, 0,
       IF Block_wire(bytes).ok THEN Block_wire(bytes).block ELSE blk,
       IF Block_wire(bytes).ok THEN ReturnsVoid ELSE Throws)

NextCodec ==
  \/ \E element \in CodecPool : PushBack(element)
  \/ Encode
  \/ Decode
  \/ Parse
  \/ \E bytes \in MalformedBuffers : Receive(bytes)

SpecCodec == InitCodec /\ [][NextCodec]_vars

\* the element of type 5 with the children (1, 01 02 03) and (2, no bytes),
\* before it is encoded
IsScenarioTree(b) ==
  /\ type(b) = 5
  /\ ~hasValue(b)
  /\ b.m_subBlocks = <<Block_value(1, <<1, 2, 3>>), Block_value(2, <<>>)>>

\* the children of b are one of type 1 with 3 value bytes and one of type
\* 2 with none, in this order
HasScenarioChildren(b) ==
  /\ Len(b.m_subBlocks) = 2
  /\ type(b.m_subBlocks[1]) = 1 /\ value_size(b.m_subBlocks[1]) = Returns(3)
  /\ type(b.m_subBlocks[2]) = 2 /\ value_size(b.m_subBlocks[2]) = Returns(0)

\* C10 as stated: the element of type 5 with the children (1, 01 02 03) and
\* (2, no bytes) encodes to 05 05 01 03 01 02 03 02 00; parse() of the
\* element constructed from these bytes gives exactly the two children of
\* types 1 and 2 with value sizes 3 and 0; a second parse() adds no child.
C10_ClaimedRoundTrip ==
  /\ (op.name = "encode" /\ IsScenarioTree(old)) =>
       hasWire(blk) /\ WireOf(blk) = ClaimedBytes
  /\ (op.name = "parse" /\ old.m_buffer = BufferOf(ClaimedBytes)
        /\ old.m_subBlocks = <<>>) =>
       ret.ok /\ HasScenarioChildren(blk)
  /\ (op.name = "parse" /\ old.m_buffer = BufferOf(ClaimedBytes)
        /\ old.m_subBlocks # <<>>) =>
       ret.ok /\ blk.m_subBlocks = old.m_subBlocks

\* C10, amended: the element of type 5 with the children (1, 01 02 03) and
\* (2, no bytes) encodes to 05 07 01 03 01 02 03 02 00, the length being
\* that of the 7 bytes of the two children; parse() of the element
\* constructed from these bytes gives exactly the two children of types 1
\* and 2 with value sizes 3 and 0; a second parse() adds no child.
C10_ScenarioRoundTrip ==
  /\ (op.name = "encode" /\ IsScenarioTree(old)) =>
       hasWire(blk) /\ WireOf(blk) = WireBytes
  /\ (op.name = "parse" /\ old = Block_wire(WireBytes).block) =>
       ret.ok /\ HasScenarioChildren(blk)
  /\ (op.name = "parse" /\ old.m_buffer = BufferOf(WireBytes)
        /\ old.m_subBlocks # <<>>) =>
       ret.ok /\ blk.m_subBlocks = old.m_subBlocks

\* the second parse() of the element decoded from the scenario's encoding
C10_Witness ==
  /\ op.name = "parse"
  /\ old = parse(Block_wire(WireBytes).block).block
  /\ HasScenarioChildren(old)
  /\ HasScenarioChildren(blk)

\* the scenario's tree was encoded, and its encoding parsed the first time
C10_WitnessEncode == op.name = "encode" /\ IsScenarioTree(old) /\ WireOf(blk) = WireBytes
C10_WitnessParse ==
  op.name = "parse" /\ old = Block_wire(WireBytes).block /\ HasScenarioChildren(blk)

\* parse() threw on a malformed value and kept the children decoded so far
C10_WitnessParseThrows == op.name = "parse" /\ ret = Throws

====
